---- MODULE Spec2Model ----
(***************************************************************************)
(* PushingToViewsBlockOutputStream: the fan-out writer that pushes every   *)
(* inserted block to the base table's sink and to every dependent view.    *)
(* Modelled from src/src/DataStreams/PushingToViewsBlockOutputStream.cpp.  *)
(*                                                                         *)
(* The calling thread is thread 0; the ThreadPool of write()/writeSuffix() *)
(* has the worker threads 1..PoolSize.  current_thread is thread-local, so *)
(* it is a function of the thread.  Downstream sinks (output, view.out,    *)
(* the Live view write path) are stubs that record the calls they receive  *)
(* and may throw.                                                          *)
(***************************************************************************)
EXTENDS Integers, Sequences, FiniteSets, TLC

\* Bounds of the model.
MaxViews == 2
MaxThreads == 2
MaxCalls == 2
MaxBatches == 2
MaxElapsed == 2
MaxTables == 3
MaxDepth == 2

\* std::atomic_uint8_t exception_count: an 8-bit counter.
ExceptionCountMod == 256

VARIABLES
    settings,         \* the caller context's settings read by the writer
    writer,           \* output / replicated_output / kind of storage
    views,            \* std::vector<ViewInfo>: query, status, exception, elapsed_ms
    current_thread,   \* thread-local ThreadStatus * of every thread
    pc,               \* where the calling thread is
    cur,              \* the writer call in progress, or the last one made
    caller,           \* what the caller has done so far: calls made, their order
    idx,              \* the loop variable of a sequential for (auto & view : views)
    job,              \* the pool job of every view in the current call
    stage,            \* the view stage every thread is running
    exception_count,  \* the atomic counter of the current pool
    view_out,         \* what every view.out has received
    direct_out,       \* what output has received
    live_out,         \* what StorageLiveView::writeIntoLiveView has received
    view_log,         \* records emitted to system.query_views_log, per view
    contexts,         \* the Context objects: the caller's, select_context, insert_context
    binding,          \* the constructor: the catalog, the writers being built, the table locks
    pool              \* the jobs of a pool counted instead of held one by one

vars == <<settings, writer, views, current_thread, pc, cur, caller, idx, job,
          stage, exception_count, view_out, direct_out, live_out, view_log, contexts,
          binding, pool>>

Caller == 0
Threads == 0..MaxThreads

Min(a, b) == IF a < b THEN a ELSE b

\* Values of the thread-local current_thread.
CallerThread == [kind |-> "caller", view |-> 0]
WorkerThread == [kind |-> "worker", view |-> 0]
NullThread == [kind |-> "null", view |-> 0]
ViewThread(v) == [kind |-> "view", view |-> v]

\* std::exception_ptr: empty, or a stored exception; `view` is the view named by
\* the message added with addMessage (0: none).
NoException == [kind |-> "none", view |-> 0]

\* catch (Exception & ex) { ex.addMessage(... view.table_id ...); view.exception = current }
\* catch (...) { view.exception = current }
Capture(thrown, v) ==
    IF thrown = "DB"
    THEN [kind |-> "DB", view |-> v]
    ELSE [kind |-> "other", view |-> 0]

\* What a writer call gave back to the caller.
Pending == [type |-> "pending", exc |-> NoException, from |-> 0]
Returned == [type |-> "ok", exc |-> NoException, from |-> 0]
ShapeMismatch == [type |-> "ShapeMismatch", exc |-> NoException, from |-> 0]
SinkThrown == [type |-> "sink", exc |-> NoException, from |-> 0]
Terminated == [type |-> "terminate", exc |-> NoException, from |-> 0]
ViewThrown(e, v) == [type |-> "view", exc |-> e, from |-> v]

\* A writer call: the batch is numbered by the call, so batches are submitted in
\* the order of their numbers.
\* `failed`: the views whose stage stored an exception in this call, in the order
\* in which the stages ended; `ran`: how many times the stage of each view has run
\* in this call.
NoCall == [op |-> "none", batch |-> 0, valid |-> TRUE, throws |-> FALSE, dup |-> FALSE,
           failed |-> <<>>, ran |-> <<>>, result |-> Returned]
Call(op, n, valid, throws, dup, result) ==
    [op |-> op, batch |-> n, valid |-> valid, throws |-> throws, dup |-> dup,
     failed |-> <<>>, ran |-> [v \in DOMAIN views |-> 0], result |-> result]

\* A sink stub: the kinds of call it has received, and the last writePrefix,
\* write or writeSuffix it has received.
Entry(call, n) == [call |-> call, batch |-> n]
NewSink == [seen |-> {}, last |-> Entry("none", 0)]
Receive(sink, e) ==
    [seen |-> sink.seen \cup {e.call}, last |-> IF e.call = "flush" THEN sink.last ELSE e]

\* The order IBlockOutputStream asks of its caller: writePrefix, then write any
\* number of times, then writeSuffix; flush at any time.
NextPhase(phase, op) ==
    CASE op = "flush" -> phase
      [] op = "prefix" /\ phase = "new" -> "prefixed"
      [] op = "write" /\ phase \in {"prefixed", "writing"} -> "writing"
      [] op = "suffix" /\ phase \in {"prefixed", "writing"} -> "suffixed"
      [] OTHER -> "misused"

\* The caller makes its next call: `threw` tells whether an earlier call threw.
Calls(op) ==
    [ncalls |-> caller.ncalls + 1,
     phase |-> NextPhase(caller.phase, op),
     threw |-> caller.threw \/ cur.result # Returned,
     stream |-> caller.stream]

\* The calls the caller may make next.  A stream caller makes writePrefix, at most
\* MaxBatches write and writeSuffix, in this order, whatever the calls throw; any
\* other caller makes at most MaxCalls calls in any order.
MayCall(op) ==
    IF caller.stream
    THEN CASE op = "prefix" -> caller.phase = "new"
           [] op = "write" -> caller.phase \in {"prefixed", "writing"}
                               /\ caller.ncalls <= MaxBatches
           [] op = "suffix" -> caller.phase \in {"prefixed", "writing"}
           [] OTHER -> FALSE
    ELSE caller.ncalls < MaxCalls

\* The settings of a Context that the writer changes, and the view source
\* attached to it (0: none).
GivenContexts ==
    [insert_deduplicate : BOOLEAN,
     min_insert_block_size_rows : {1},
     min_insert_block_size_bytes : {1},
     min_insert_block_size_rows_for_materialized_views : {0, 2},
     min_insert_block_size_bytes_for_materialized_views : {0, 2},
     view_source : {0}]
DefaultContext ==
    [insert_deduplicate |-> TRUE,
     min_insert_block_size_rows |-> 1,
     min_insert_block_size_bytes |-> 1,
     min_insert_block_size_rows_for_materialized_views |-> 0,
     min_insert_block_size_bytes_for_materialized_views |-> 0,
     view_source |-> 0]

\* Context::createCopy(c): a new Context object with the contents of c.  `heap`
\* holds the Context objects, a ContextPtr is an index of it (0: null).
CreateCopy(heap, c) == [heap |-> Append(heap, heap[c]), id |-> Len(heap) + 1]

\* c->setSetting(name, value), c->addViewSource(...)
SetSetting(heap, c, name, value) == [heap EXCEPT ![c] = [@ EXCEPT ![name] = value]]

\* The caller's context_ is object 1.
CallerContext == 1

\* disable_deduplication_for_children = !no_destination && storage->supportsDeduplication(),
\* unless deduplicate_blocks_in_dependent_materialized_views.
DisableDeduplicationAlways(dedup_views, no_destination, supports_deduplication) ==
    ~no_destination /\ supports_deduplication
DisableDeduplicationForChildren(dedup_views, no_destination, supports_deduplication) ==
    IF ~dedup_views THEN ~no_destination /\ supports_deduplication ELSE FALSE

\* The constructor's "special context for materialized views insertions".
ContextsAfterConstructionInPlace(given, dedup_views, no_destination, supports_deduplication, dependencies) ==
    LET heap == <<given>>
        disable == DisableDeduplicationForChildren(dedup_views, no_destination,
                                                   supports_deduplication)
        h1 == IF disable
              THEN SetSetting(heap, CallerContext, "insert_deduplicate", FALSE)
              ELSE heap
        h2 == IF given.min_insert_block_size_rows_for_materialized_views # 0
              THEN SetSetting(h1, CallerContext, "min_insert_block_size_rows",
                              given.min_insert_block_size_rows_for_materialized_views)
              ELSE h1
    IN IF dependencies = 0
       THEN [given |-> given, supports_deduplication |-> supports_deduplication,
             heap |-> heap, select_context |-> 0, insert_context |-> 0]
       ELSE [given |-> given, supports_deduplication |-> supports_deduplication,
             heap |-> h2, select_context |-> CallerContext, insert_context |-> CallerContext]
ContextsAfterConstruction(given, dedup_views, no_destination, supports_deduplication, dependencies) ==
    LET heap == <<given>>
        sel == CreateCopy(heap, CallerContext)
        ins == CreateCopy(sel.heap, CallerContext)
        disable == DisableDeduplicationForChildren(dedup_views, no_destination,
                                                   supports_deduplication)
        h1 == IF disable
              THEN SetSetting(ins.heap, ins.id, "insert_deduplicate", FALSE)
              ELSE ins.heap
        h2 == IF h1[ins.id].min_insert_block_size_rows_for_materialized_views # 0
              THEN SetSetting(h1, ins.id, "min_insert_block_size_rows",
                              h1[ins.id].min_insert_block_size_rows_for_materialized_views)
              ELSE h1
        h3 == IF h2[ins.id].min_insert_block_size_bytes_for_materialized_views # 0
              THEN SetSetting(h2, ins.id, "min_insert_block_size_bytes",
                              h2[ins.id].min_insert_block_size_bytes_for_materialized_views)
              ELSE h2
    IN IF dependencies = 0
       THEN [given |-> given, supports_deduplication |-> supports_deduplication,
             heap |-> heap, select_context |-> 0, insert_context |-> 0]
       ELSE [given |-> given, supports_deduplication |-> supports_deduplication,
             heap |-> h3, select_context |-> sel.id, insert_context |-> ins.id]

\* process(): for a view with a query, local_context = Context::createCopy(select_context);
\* local_context->addViewSource(...); the local context dies with the stage.
ContextsAfterProcess(c, query, op, n) ==
    IF op = "write" /\ query
    THEN LET loc == CreateCopy(c.heap, c.select_context)
             h == SetSetting(loc.heap, loc.id, "view_source", n)
         IN [c EXCEPT !.heap = SubSeq(h, 1, Len(c.heap))]
    ELSE c

IdleStage == [view |-> 0, pos |-> "idle", op |-> "none", batch |-> 0,
              running_thread |-> NullThread]

\* const size_t max_threads = std::min(views.size(), parallel_view_processing ? max_threads : 1)
PoolSizeIgnoresFlag == Min(Len(views), settings.max_threads)
PoolSize ==
    Min(Len(views), IF settings.parallel_view_processing THEN settings.max_threads ELSE 1)

\* views.emplace_back(ViewRuntimeData{std::move(query), ..., std::move(out), nullptr,
\* std::move(runtime_stats)}): the query is set for a Materialized view (its inner
\* query) and for a Live view (getInnerQuery()), and is null for any other table.
ViewTypes == {"Default", "Materialized", "Live"}
NewView(type) ==
    [type |-> type, query |-> type # "Default", status |-> "Init",
     exception |-> NoException, elapsed_ms |-> 0]
ViewRecordsOf(n, Types) == [1..n -> {NewView(type) : type \in Types}]
ViewRecords(n) == ViewRecordsOf(n, {"Default", "Materialized"})

\* The settings of the caller's context: every record is logged.
LoggedSettings ==
    [parallel_view_processing : BOOLEAN,
     max_threads : 1..MaxThreads,
     deduplicate_blocks_in_dependent_materialized_views : BOOLEAN,
     log_queries : {TRUE},
     log_query_views : {TRUE},
     min_query_duration : {0}]

\* The settings of log_query_views(): records are logged or not, with or without
\* a minimal duration.
GatedSettings ==
    [parallel_view_processing : BOOLEAN,
     max_threads : {MaxThreads},
     deduplicate_blocks_in_dependent_materialized_views : {FALSE},
     log_queries : BOOLEAN,
     log_query_views : BOOLEAN,
     min_query_duration : {0, 1}]

\* output is set unless no_destination; replicated_output is output's sink when it
\* is a ReplicatedMergeTreeSink; a Live view storage has no sink of its own.
Writers ==
    {w \in [output : BOOLEAN, replicated_output : BOOLEAN, live_storage : BOOLEAN] :
        /\ w.replicated_output => w.output
        /\ w.live_storage => ~w.output}
PlainWriters == {w \in Writers : w.output /\ ~w.replicated_output}

(***************************************************************************)
(* The catalog, the table locks and the writers under construction.        *)
(***************************************************************************)

Tables == 1..MaxTables
RootTable == 1

RECURSIVE SetToSeq(_)
SetToSeq(S) ==
    IF S = {} THEN <<>>
    ELSE LET m == CHOOSE x \in S : \A y \in S : x <= y
         IN <<m>> \o SetToSeq(S \ {m})

\* DatabaseCatalog::instance().getDependencies(table_id) and the kind of table
\* getTable(database_table) returns: any graph over the tables, cycles included.
Catalogs ==
    [dependencies : [Tables -> {SetToSeq(S) : S \in SUBSET Tables}],
     type : [Tables -> ViewTypes]]
NoCatalog == [dependencies |-> [t \in Tables |-> <<>>], type |-> [t \in Tables |-> "Default"]]

\* A PushingToViewsBlockOutputStream whose constructor is running: `k` is the
\* dependency the loop is at, `records` the kinds of the view records built so
\* far, `base` the lock on its storage, `locked` the dependencies whose
\* Materialized view it has locked, `nested` the locks of the nested writers its
\* records own.
NewFrame(table, no_destination) ==
    [table |-> table, no_destination |-> no_destination, phase |-> "enter", k |-> 1,
     records |-> <<>>, base |-> FALSE, locked |-> {}, nested |-> 0]

FrameLocks(f) == (IF f.base THEN 1 ELSE 0) + Cardinality(f.locked) + f.nested

\* addTableLock(...): the locks are kept in the writer until it is destroyed.
NoLocks == [base |-> FALSE, views |-> {}]
LocksOfBaseOnly(f) == [base |-> f.base, views |-> {}]
LocksAfterBinding(f) == [base |-> f.base, views |-> f.locked]

\* Before the constructor of the root writer starts.
Unbound(catalog, no_destination) ==
    [status |-> "constructing", catalog |-> catalog,
     stack |-> <<NewFrame(RootTable, no_destination)>>,
     table_locks |-> NoLocks, error |-> "none"]

\* After the constructor: the root writer holds the lock of its storage and of
\* each Materialized view it has bound.
Bound(vs) ==
    [status |-> "constructed", catalog |-> NoCatalog, stack |-> <<>>,
     table_locks |-> [base |-> TRUE,
                      views |-> {v \in DOMAIN vs : vs[v].type = "Materialized"}],
     error |-> "none"]

\* No pool is counted.
NoPool == [call |-> 0, queued |-> 0, running |-> 0, held |-> FALSE, threw |-> FALSE,
           result |-> Pending]

\* The writer after construction, before its first call: its settings are among
\* `Settings`, its sinks among `Sinks`, its view records among `Records`, the
\* context of its caller among `Givens`, storage->supportsDeduplication() among
\* `Supports`.
Construction(Settings, Sinks, Records, Givens, Supports) ==
    /\ settings \in Settings
    /\ writer \in Sinks
    /\ settings.deduplicate_blocks_in_dependent_materialized_views => writer.replicated_output
    /\ views \in Records
    /\ view_out = [v \in DOMAIN views |-> NewSink]
    /\ view_log = [v \in DOMAIN views |-> 0]
    /\ job = [v \in DOMAIN views |-> "none"]
    /\ current_thread = [t \in Threads |-> IF t = Caller THEN CallerThread ELSE WorkerThread]
    /\ pc = "idle"
    /\ cur = NoCall
    /\ caller \in [ncalls : {0}, phase : {"new"}, threw : {FALSE}, stream : BOOLEAN]
    /\ idx = 0
    /\ stage = [t \in Threads |-> IdleStage]
    /\ exception_count = 0
    /\ direct_out = NewSink
    /\ live_out = NewSink
    /\ binding = Bound(views)
    /\ pool = NoPool
    /\ \E given \in Givens, supports_deduplication \in Supports :
         /\ writer.replicated_output => supports_deduplication
         /\ contexts = ContextsAfterConstruction(
                given, settings.deduplicate_blocks_in_dependent_materialized_views,
                ~writer.output, supports_deduplication, Len(views))

\* Up to MaxViews dependents of any kind; the same without a query; MaxViews + 1
\* dependents without a query.
AnyViews == UNION {ViewRecords(n) : n \in 0..MaxViews}
PlainViews == {vs \in AnyViews : \A v \in DOMAIN vs : ~vs[v].query}
ManyViews == {vs \in ViewRecords(MaxViews + 1) : \A v \in DOMAIN vs : ~vs[v].query}

\* The storage supports deduplication exactly when its sink is replicated.
Constructed ==
    /\ Construction(LoggedSettings, Writers, AnyViews, {DefaultContext}, BOOLEAN)
    /\ contexts.supports_deduplication = writer.replicated_output

\* Any caller.
Init == Constructed /\ ~caller.stream

\* A caller that follows the order of a stream.
InitStream == Constructed /\ caller.stream

(***************************************************************************)
(* The per-view stage runner: process, process_prefix, process_suffix.     *)
(***************************************************************************)

\* view.runtime_stats.setStatus(...) at the end of the try block of a stage.
StatusAfterMixed(op) ==
    CASE op = "prefix" -> "BlockWritten"
      [] op = "write" -> "PrefixWritten"
      [] op = "suffix" -> "SuffixWritten"
StatusAfter(op) ==
    CASE op = "prefix" -> "PrefixWritten"
      [] op = "write" -> "BlockWritten"
      [] op = "suffix" -> "SuffixWritten"

\* What the body of a stage can do.  "ok": view.out was called and returned;
\* "sink_*": view.out was called and threw; "empty": the SELECT of the view
\* produced no block, so view.out->write was not called; "select_*": building or
\* reading the SELECT pipeline (or validateArraySizes of its result) threw.
SinkOutcomes == {"ok", "sink_DB", "sink_other"}
SelectOutcomes == {"empty", "select_DB"}
StageOutcomes(op, view) ==
    IF op = "write" /\ view.query THEN SinkOutcomes \cup SelectOutcomes ELSE SinkOutcomes

Thrown(outcome) ==
    CASE outcome \in {"sink_DB", "select_DB"} -> "DB"
      [] outcome = "sink_other" -> "other"
      [] OTHER -> "none"

\* The try/catch of a stage: the status is set when the body returns, the
\* exception is stored when it throws.
ViewAfterBody(view, v, op, outcome) ==
    IF Thrown(outcome) = "none"
    THEN [view EXCEPT !.status = StatusAfter(op)]
    ELSE [view EXCEPT !.exception = Capture(Thrown(outcome), v)]

\* The calls view.out receives from the body.
SinkAfterBody(sink, op, n, outcome) ==
    IF outcome \in SinkOutcomes THEN Receive(sink, Entry(op, n)) ELSE sink

\* SCOPE_EXIT({ current_thread->updatePerformanceCounters(); current_thread = running_thread; })
ScopeExitKeepsView(running_thread, now) == now
ScopeExit(running_thread, now) == running_thread

\* auto * running_thread = current_thread; current_thread = view.runtime_stats.thread_status.get();
Enter(t, v) ==
    /\ stage' = [stage EXCEPT ![t] =
                    [view |-> v, pos |-> "entered", op |-> cur.op, batch |-> cur.batch,
                     running_thread |-> current_thread[t]]]
    /\ current_thread' = [current_thread EXCEPT ![t] = ViewThread(v)]

\* The body of the stage thread t has entered, with its try/catch: `outcome` is
\* what the body does.
BodyViews(t, outcome) ==
    [views EXCEPT ![stage[t].view] = ViewAfterBody(@, stage[t].view, stage[t].op, outcome)]
BodySinks(t, outcome) ==
    [view_out EXCEPT ![stage[t].view] =
        SinkAfterBody(@, stage[t].op, stage[t].batch, outcome)]

\* The Context objects after the stage of thread t.
StageContexts(t) ==
    ContextsAfterProcess(contexts, views[stage[t].view].query, stage[t].op, stage[t].batch)

\* view.runtime_stats.elapsed_ms += watch.elapsedMilliseconds();
Elapsed(vs, v, d) == [vs EXCEPT ![v].elapsed_ms = @ + d]

\* The call in progress, after the stage of thread t ended with `outcome`.
Noted(t, outcome) ==
    IF Thrown(outcome) = "none"
    THEN [cur EXCEPT !.ran[stage[t].view] = @ + 1]
    ELSE [cur EXCEPT !.ran[stage[t].view] = @ + 1, !.failed = Append(@, stage[t].view)]

(***************************************************************************)
(* check_exceptions_in_views and log_query_views.                          *)
(***************************************************************************)

HasException(vs) == \E i \in DOMAIN vs : vs[i].exception # NoException

LastWithException(vs) ==
    IF HasException(vs)
    THEN CHOOSE i \in DOMAIN vs :
            /\ vs[i].exception # NoException
            /\ \A j \in DOMAIN vs : j > i => vs[j].exception = NoException
    ELSE 0
FirstWithException(vs) ==
    IF HasException(vs)
    THEN CHOOSE i \in DOMAIN vs :
            /\ vs[i].exception # NoException
            /\ \A j \in DOMAIN vs : j < i => vs[j].exception = NoException
    ELSE 0

\* log_query_views(): one record for every view, unless logging is off or the
\* view took no longer than log_queries_min_query_duration_ms.
LogQueryViewsOfFailed(vs, log) ==
    [v \in DOMAIN log |-> IF vs[v].exception # NoException THEN log[v] + 1 ELSE log[v]]
LogQueryViews(vs, log) ==
    IF Len(vs) = 0 \/ ~settings.log_queries \/ ~settings.log_query_views
    THEN log
    ELSE [v \in DOMAIN log |->
            IF settings.min_query_duration # 0
               /\ vs[v].elapsed_ms <= settings.min_query_duration
            THEN log[v]
            ELSE log[v] + 1]

\* The result of check_exceptions_in_views(): the first stored exception is
\* rethrown after log_query_views(); with none stored the function returns.
CheckExceptionsInViews(vs, log) ==
    IF HasException(vs)
    THEN [result |-> ViewThrown(vs[FirstWithException(vs)].exception, FirstWithException(vs)),
          log |-> LogQueryViews(vs, log)]
    ELSE [result |-> Returned, log |-> log]

\* The end of write() and of writeSuffix(), after the loop or the pool.
EndOfCallLogsAlways(op, vs, log, exception_happened) ==
    LET checked == IF exception_happened
                   THEN CheckExceptionsInViews(vs, log)
                   ELSE [result |-> Returned, log |-> log]
    IN IF checked.result = Returned
       THEN [result |-> Returned, log |-> LogQueryViews(vs, checked.log)]
       ELSE checked
EndOfCall(op, vs, log, exception_happened) ==
    LET checked == IF exception_happened
                   THEN CheckExceptionsInViews(vs, log)
                   ELSE [result |-> Returned, log |-> log]
    IN IF op = "suffix" /\ checked.result = Returned
       THEN [result |-> Returned, log |-> LogQueryViews(vs, checked.log)]
       ELSE checked

(***************************************************************************)
(* The writer's methods, as run by the calling thread.                     *)
(***************************************************************************)

\* Nothing more to do in this call: control is back in the caller.
ReturnToCaller ==
    /\ pc' = "idle"
    /\ idx' = 0
    /\ UNCHANGED <<job, exception_count>>

\* if (max_threads > 1) { ThreadPool pool(max_threads); exception_count = 0; schedule one
\* job per view } else { for (auto & view : views) ... }
StartViews ==
    IF PoolSize > 1
    THEN /\ pc' = "wait"
         /\ job' = [v \in DOMAIN job |-> "queued"]
         /\ exception_count' = 0
         /\ idx' = 0
    ELSE /\ pc' = "loop"
         /\ idx' = 1
         /\ UNCHANGED <<job, exception_count>>

\* for (auto & view : views) process_prefix(view): always the loop on the calling
\* thread, whatever parallel_view_processing and max_threads are.
StartPrefixInPool ==
    IF settings.parallel_view_processing /\ settings.max_threads > 1
    THEN /\ pc' = "wait"
         /\ job' = [v \in DOMAIN job |-> "queued"]
         /\ exception_count' = 0
         /\ idx' = 0
    ELSE /\ pc' = "loop"
         /\ idx' = 1
         /\ UNCHANGED <<job, exception_count>>
StartPrefix ==
    /\ pc' = "loop"
    /\ idx' = 1
    /\ UNCHANGED <<job, exception_count>>

\* writePrefix(): output->writePrefix(), then process_prefix for every view in turn.
WritePrefix ==
    /\ pc = "idle"
    /\ MayCall("prefix")
    /\ \E throws \in {b \in BOOLEAN : b => writer.output} :
         LET n == caller.ncalls + 1 IN
         /\ caller' = Calls("prefix")
         /\ direct_out' = IF writer.output THEN Receive(direct_out, Entry("prefix", n))
                          ELSE direct_out
         /\ IF throws
            THEN cur' = Call("prefix", n, TRUE, throws, FALSE, SinkThrown) /\ ReturnToCaller
            ELSE IF Len(views) = 0
            THEN cur' = Call("prefix", n, TRUE, throws, FALSE, Returned) /\ ReturnToCaller
            ELSE cur' = Call("prefix", n, TRUE, throws, FALSE, Pending) /\ StartPrefix
    /\ UNCHANGED <<binding, pool, contexts, settings, writer, views, current_thread, stage, view_out, live_out, view_log>>

\* The head of write(): Nested::validateArraySizes(block), then the Live view
\* write path or output->write(block).  result Pending: control goes on to the views.
WriteToStorageUnchecked(valid, throws, n) ==
    [result |-> IF ~valid THEN ShapeMismatch ELSE IF throws THEN SinkThrown ELSE Pending,
     direct |-> IF ~writer.live_storage /\ writer.output
                THEN Receive(direct_out, Entry("write", n)) ELSE direct_out,
     live |-> IF writer.live_storage THEN Receive(live_out, Entry("write", n)) ELSE live_out]
WriteToStorageSwallows(valid, throws, n) ==
    [result |-> IF ~valid THEN ShapeMismatch ELSE Pending,
     direct |-> IF valid /\ ~writer.live_storage /\ writer.output
                THEN Receive(direct_out, Entry("write", n)) ELSE direct_out,
     live |-> IF valid /\ writer.live_storage
              THEN Receive(live_out, Entry("write", n)) ELSE live_out]
WriteToStorageLater(valid, throws, n) ==
    [result |-> IF ~valid THEN ShapeMismatch ELSE IF throws THEN SinkThrown ELSE Pending,
     direct |-> direct_out,
     live |-> live_out]
WriteToStorage(valid, throws, n) ==
    IF ~valid
    THEN [result |-> ShapeMismatch, direct |-> direct_out, live |-> live_out]
    ELSE IF writer.live_storage
    THEN [result |-> IF throws THEN SinkThrown ELSE Pending,
          direct |-> direct_out,
          live |-> Receive(live_out, Entry("write", n))]
    ELSE IF writer.output
    THEN [result |-> IF throws THEN SinkThrown ELSE Pending,
          direct |-> Receive(direct_out, Entry("write", n)),
          live |-> live_out]
    ELSE [result |-> Pending, direct |-> direct_out, live |-> live_out]

\* if (!deduplicate_blocks_in_dependent_materialized_views && replicated_output
\*     && replicated_output->lastBlockIsDuplicate()) return;
DuplicateGateOff(dup) == FALSE
DuplicateGate(dup) ==
    /\ ~settings.deduplicate_blocks_in_dependent_materialized_views
    /\ writer.replicated_output
    /\ dup

\* write(block) up to the point where the views are started.  `throws`: the Live
\* view write path or output->write throws; `dup`: lastBlockIsDuplicate() after it.
Write ==
    /\ pc = "idle"
    /\ MayCall("write")
    /\ \E valid \in BOOLEAN :
       \E throws \in {b \in BOOLEAN : b => (valid /\ (writer.output \/ writer.live_storage))} :
       \E dup \in {b \in BOOLEAN : b => (valid /\ ~throws /\ writer.replicated_output)} :
         LET n == caller.ncalls + 1
             w == WriteToStorage(valid, throws, n)
         IN
         /\ caller' = Calls("write")
         /\ direct_out' = w.direct
         /\ live_out' = w.live
         /\ IF w.result # Pending
            THEN cur' = Call("write", n, valid, throws, dup, w.result) /\ ReturnToCaller
            ELSE IF Len(views) = 0 \/ DuplicateGate(dup)
            THEN cur' = Call("write", n, valid, throws, dup, Returned) /\ ReturnToCaller
            ELSE cur' = Call("write", n, valid, throws, dup, Pending) /\ StartViews
    /\ UNCHANGED <<binding, pool, contexts, settings, writer, views, current_thread, stage, view_out, view_log>>

\* writeSuffix() up to the point where the views are started.
WriteSuffix ==
    /\ pc = "idle"
    /\ MayCall("suffix")
    /\ \E throws \in {b \in BOOLEAN : b => writer.output} :
         LET n == caller.ncalls + 1 IN
         /\ caller' = Calls("suffix")
         /\ direct_out' = IF writer.output THEN Receive(direct_out, Entry("suffix", n))
                          ELSE direct_out
         /\ IF throws
            THEN cur' = Call("suffix", n, TRUE, throws, FALSE, SinkThrown) /\ ReturnToCaller
            ELSE IF Len(views) = 0
            THEN cur' = Call("suffix", n, TRUE, throws, FALSE, Returned) /\ ReturnToCaller
            ELSE cur' = Call("suffix", n, TRUE, throws, FALSE, Pending) /\ StartViews
    /\ UNCHANGED <<binding, pool, contexts, settings, writer, views, current_thread, stage, view_out, live_out, view_log>>

\* for (auto & view : views) { process(block, view); if (view.exception) {
\* exception_happened = true; break; } }: the loop ends at the first view that
\* holds an exception, or after the last view.
LoopEndsAtFirst(failed, v) == TRUE
LoopEnds(failed, v) == failed \/ v = Len(views)

\* for (auto & view : views) process*(view): the stage starts on the calling thread.
LoopEnter ==
    /\ pc = "loop"
    /\ stage[Caller].pos = "idle"
    /\ Enter(Caller, idx)
    /\ UNCHANGED <<binding, pool, contexts, settings, writer, views, pc, cur, caller, idx, job, exception_count,
                   view_out, direct_out, live_out, view_log>>

\* The stage runs and ends on the calling thread (nothing another thread does can
\* be seen from inside it), and the loop goes on, breaks or ends.
\* writePrefix: if (view.exception) { log_query_views(); throw; } with no exception
\* being handled, so std::terminate() is called.
LoopFinish ==
    /\ pc = "loop"
    /\ stage[Caller].pos = "entered"
    /\ \E outcome \in StageOutcomes(cur.op, views[idx]), d \in {0, MaxElapsed} :
         LET v == stage[Caller].view
             vs == Elapsed(BodyViews(Caller, outcome), v, d)
             failed == vs[v].exception # NoException
             end == EndOfCall(cur.op, vs, view_log, failed)
         IN
         /\ vs[v].elapsed_ms <= MaxElapsed
         /\ views' = vs
         /\ view_out' = BodySinks(Caller, outcome)
         /\ contexts' = StageContexts(Caller)
         /\ current_thread' =
               [current_thread EXCEPT ![Caller] = ScopeExit(stage[Caller].running_thread, @)]
         /\ stage' = [stage EXCEPT ![Caller] = IdleStage]
         /\ IF cur.op = "prefix" /\ failed
            THEN /\ cur' = [Noted(Caller, outcome) EXCEPT !.result = Terminated]
                 /\ view_log' = LogQueryViews(vs, view_log)
                 /\ pc' = "aborted"
                 /\ idx' = 0
            ELSE IF cur.op = "prefix" /\ v = Len(views)
            THEN /\ cur' = [Noted(Caller, outcome) EXCEPT !.result = Returned]
                 /\ pc' = "idle"
                 /\ idx' = 0
                 /\ UNCHANGED view_log
            ELSE IF cur.op # "prefix" /\ LoopEnds(failed, v)
            THEN /\ cur' = [Noted(Caller, outcome) EXCEPT !.result = end.result]
                 /\ view_log' = end.log
                 /\ pc' = "idle"
                 /\ idx' = 0
            ELSE /\ cur' = Noted(Caller, outcome)
                 /\ idx' = idx + 1
                 /\ UNCHANGED <<pc, view_log>>
    /\ UNCHANGED <<binding, pool, settings, writer, caller, job, exception_count, direct_out,
                   live_out>>

(***************************************************************************)
(* The pool of write() and writeSuffix().                                  *)
(***************************************************************************)

IdleWorkers == {t \in 1..PoolSize : stage[t].pos = "idle"}
LowestIdleWorker == CHOOSE t \in IdleWorkers : \A u \in IdleWorkers : t <= u

\* A worker takes the job of view v: if (exception_count.load()) return; process(block, view);
JobStart(v) ==
    /\ pc = "wait"
    /\ job[v] = "queued"
    /\ IdleWorkers # {}
    /\ IF exception_count # 0
       THEN /\ job' = [job EXCEPT ![v] = "done"]
            /\ UNCHANGED <<stage, current_thread>>
       ELSE /\ job' = [job EXCEPT ![v] = "running"]
            /\ Enter(LowestIdleWorker, v)
    /\ UNCHANGED <<binding, pool, contexts, settings, writer, views, pc, cur, caller, idx, exception_count,
                   view_out, direct_out, live_out, view_log>>

\* The stage runs and ends on the worker (its body touches only its own view and
\* its own thread): if (view.exception) exception_count.fetch_add(1);
JobFinish(t) ==
    /\ t # Caller
    /\ stage[t].pos = "entered"
    /\ \E outcome \in StageOutcomes(stage[t].op, views[stage[t].view]), d \in {0, MaxElapsed} :
         LET v == stage[t].view
             vs == Elapsed(BodyViews(t, outcome), v, d)
         IN
         /\ vs[v].elapsed_ms <= MaxElapsed
         /\ views' = vs
         /\ view_out' = BodySinks(t, outcome)
         /\ contexts' = StageContexts(t)
         /\ cur' = Noted(t, outcome)
         /\ current_thread' =
               [current_thread EXCEPT ![t] = ScopeExit(stage[t].running_thread, @)]
         /\ stage' = [stage EXCEPT ![t] = IdleStage]
         /\ job' = [job EXCEPT ![v] = "done"]
         /\ exception_count' =
               IF vs[v].exception # NoException
               THEN (exception_count + 1) % ExceptionCountMod
               ELSE exception_count
    /\ UNCHANGED <<binding, pool, settings, writer, pc, caller, idx, direct_out, live_out,
                   view_log>>

\* pool.wait(): every scheduled job has run.
PoolDrainedEarly == \E v \in DOMAIN job : job[v] = "done"
PoolDrained == \A v \in DOMAIN job : job[v] = "done"

\* pool.wait(); exception_happened = exception_count.load() != 0;
PoolWait ==
    /\ pc = "wait"
    /\ PoolDrained
    /\ LET end == EndOfCall(cur.op, views, view_log, exception_count # 0) IN
         /\ cur' = [cur EXCEPT !.result = end.result]
         /\ view_log' = end.log
    /\ pc' = "idle"
    /\ job' = [v \in DOMAIN job |-> "none"]
    /\ exception_count' = 0
    /\ UNCHANGED <<binding, pool, contexts, settings, writer, views, current_thread, caller, idx, stage,
                   view_out, direct_out, live_out>>

(***************************************************************************)
(* flush() and the destructor.                                             *)
(***************************************************************************)

FlushThrown(k) == [type |-> "sink", exc |-> NoException, from |-> k]

\* output->flush(); for (auto & view : views) view.out->flush();  The first flush
\* that throws ends the call: `thrower` is 0 for output, k for view k, and
\* Len(views) + 1 when nothing throws.
Flush ==
    /\ pc = "idle"
    /\ MayCall("flush")
    /\ \E thrower \in {k \in 0..(Len(views) + 1) : k = 0 => writer.output} :
         LET n == caller.ncalls + 1 IN
         /\ caller' = Calls("flush")
         /\ direct_out' = IF writer.output THEN Receive(direct_out, Entry("flush", n))
                          ELSE direct_out
         /\ view_out' = [v \in DOMAIN view_out |->
                            IF v <= thrower THEN Receive(view_out[v], Entry("flush", n))
                            ELSE view_out[v]]
         /\ cur' = Call("flush", n, TRUE, thrower <= Len(views), FALSE,
                        IF thrower <= Len(views) THEN FlushThrown(thrower) ELSE Returned)
    /\ UNCHANGED <<binding, pool, contexts, settings, writer, views, current_thread, pc, idx, job, stage,
                   exception_count, live_out, view_log>>

\* views.clear() destroys every view's ThreadStatus, whose destructor modifies
\* current_thread.
AfterClear(now) == IF Len(views) > 0 THEN NullThread ELSE now

\* auto * running_thread = current_thread; views.clear(); current_thread = running_thread;
\* The members are destroyed after the body, the table locks among them.
\* The pool is a local of write(), joined before write() ends: no stage is running.
Destroy ==
    /\ pc = "idle"
    /\ \A t \in Threads : stage[t].pos = "idle"
    /\ pc' = "destroyed"
    /\ views' = <<>>
    /\ current_thread' = [current_thread EXCEPT ![Caller] = ScopeExit(@, AfterClear(@))]
    /\ binding' = [binding EXCEPT !.status = "destroyed", !.table_locks = NoLocks]
    /\ UNCHANGED <<pool, contexts, settings, writer, cur, caller, idx, job, stage, exception_count,
                   view_out, direct_out, live_out, view_log>>

Next ==
    \/ WritePrefix
    \/ Write
    \/ WriteSuffix
    \/ Flush
    \/ Destroy
    \/ LoopEnter
    \/ LoopFinish
    \/ \E v \in DOMAIN job : JobStart(v)
    \/ \E t \in Threads : JobFinish(t)
    \/ PoolWait

Spec == Init /\ [][Next]_vars

NextStream ==
    \/ WritePrefix
    \/ Write
    \/ WriteSuffix
    \/ Destroy
    \/ LoopEnter
    \/ LoopFinish
    \/ \E v \in DOMAIN job : JobStart(v)
    \/ \E t \in Threads : JobFinish(t)
    \/ PoolWait

SpecStream == InitStream /\ [][NextStream]_vars

\* A writer with more views than the pool has threads, and a caller of write() and
\* writeSuffix().
InitWide ==
    /\ Construction(LoggedSettings, PlainWriters, ManyViews, {DefaultContext}, {FALSE})
    /\ ~caller.stream

NextWide ==
    \/ Write
    \/ WriteSuffix
    \/ LoopEnter
    \/ LoopFinish
    \/ \E v \in DOMAIN job : JobStart(v)
    \/ \E t \in Threads : JobFinish(t)
    \/ PoolWait

SpecWide == InitWide /\ [][NextWide]_vars

\* A caller that follows the order of a stream, with any settings of the view log.
InitLog ==
    /\ Construction(GatedSettings, PlainWriters, PlainViews, {DefaultContext}, {FALSE})
    /\ caller.stream

SpecLog == InitLog /\ [][NextStream]_vars

\* Sequential processing, any context of the caller, any storage, any caller.
SequentialSettings ==
    [parallel_view_processing : {FALSE},
     max_threads : {1},
     deduplicate_blocks_in_dependent_materialized_views : BOOLEAN,
     log_queries : {TRUE},
     log_query_views : {TRUE},
     min_query_duration : {0}]

InitContext ==
    /\ Construction(SequentialSettings, Writers, AnyViews, GivenContexts, BOOLEAN)
    /\ ~caller.stream

NextContext ==
    \/ WritePrefix
    \/ Write
    \/ WriteSuffix
    \/ Flush
    \/ Destroy
    \/ LoopEnter
    \/ LoopFinish

SpecContext == InitContext /\ [][NextContext]_vars

(***************************************************************************)
(* Properties.                                                             *)
(***************************************************************************)

\* C1: whenever the calling thread is not inside a view stage - so before and
\* after every writer call (writePrefix, write, writeSuffix, flush), whether it
\* returned or threw, and after the destructor, in sequential and in parallel
\* mode - its current_thread is the ThreadStatus it had before the call.
C1_AccountingRestored ==
    stage[Caller].pos = "idle" => current_thread[Caller] = CallerThread

\* A call that ran a stage on the calling thread threw, and the writer was destroyed.
C1_Witness ==
    /\ pc = "destroyed"
    /\ PoolSize <= 1
    /\ cur.result.type = "view"
    /\ current_thread[Caller] = CallerThread

\* C2: when the block stage of some view failed during a write() call, the call
\* throws to the caller, and the message of the exception thrown names a view
\* whose stage failed in this call.
C2_WriteThrowsNamingView ==
    (pc = "idle" /\ cur.op = "write" /\ cur.failed # <<>>) =>
        /\ cur.result.type = "view"
        /\ \E i \in 1..Len(cur.failed) : cur.result.exc.view = cur.failed[i]

\* C3: the exception write() or writeSuffix() rethrows is the one stored in the
\* view of lowest position that holds one, whatever the order in which the stages
\* of the views ended; when no earlier call has thrown, that view is the lowest of
\* the views that captured an exception in this call.
C3_FirstInOrderRethrown ==
    (pc = "idle" /\ cur.op \in {"write", "suffix"} /\ cur.result.type = "view") =>
        LET first == cur.result.from IN
        /\ first \in DOMAIN views
        /\ views[first].exception # NoException
        /\ cur.result.exc = views[first].exception
        /\ \A j \in DOMAIN views : j < first => views[j].exception = NoException
        /\ ~caller.threw =>
              /\ \E i \in 1..Len(cur.failed) : cur.failed[i] = first
              /\ \A i \in 1..Len(cur.failed) : first <= cur.failed[i]

\* Two views failed in one call, the second view first, and the first view's
\* exception was rethrown.
C3_Witness ==
    /\ pc = "idle"
    /\ cur.failed = <<2, 1>>
    /\ cur.result.type = "view"
    /\ cur.result.from = 1
    /\ views[1].exception # views[2].exception

\* The steps of a status that keep the statuses observed a prefix of
\* (Init, PrefixWritten, BlockWritten repeated, SuffixWritten), or end in Failed.
StatusStep(a, b) ==
    \/ a = b
    \/ a = "Init" /\ b = "PrefixWritten"
    \/ a = "PrefixWritten" /\ b \in {"BlockWritten", "SuffixWritten"}
    \/ a = "BlockWritten" /\ b = "SuffixWritten"
    \/ a # "Failed" /\ b = "Failed"

StatusSteps == \A v \in DOMAIN views \cap DOMAIN views' : StatusStep(views[v].status, views'[v].status)

C5_FailedViewSkipped ==
    [][\A t \in Threads :
          (stage[t].pos = "idle" /\ stage'[t].pos = "entered"
              /\ stage'[t].op \in {"write", "suffix"})
          => views[stage'[t].view].exception = NoException]_vars

\* C6: for a caller that makes its calls in stream order, whatever a view's sink
\* receives comes in the order of the caller's calls (batch numbers grow), nothing
\* comes after its writeSuffix, and while no earlier call has thrown its write
\* and writeSuffix come after its writePrefix.
C6_SinkOrder ==
    [][\A v \in DOMAIN view_out :
          view_out'[v] # view_out[v] =>
              /\ view_out'[v].last.batch > view_out[v].last.batch
              /\ "suffix" \notin view_out[v].seen
              /\ (view_out'[v].last.call # "prefix" /\ ~caller.threw)
                    => "prefix" \in view_out[v].seen]_vars

\* In parallel mode a view's sink received writePrefix, two batches in order and
\* writeSuffix.
C6_Witness ==
    /\ PoolSize > 1
    /\ caller.phase = "suffixed"
    /\ caller.ncalls = 4
    /\ view_out[2].seen = {"prefix", "write", "suffix"}
    /\ view_out[2].last = Entry("suffix", 4)

\* C7: a write() whose replicated sink reports the last block a duplicate, with
\* deduplicate_blocks_in_dependent_materialized_views false, returns normally
\* without running any view stage: no view and no view sink changes.
C7_DuplicateSkipsViews ==
    [][(cur'.batch # cur.batch /\ cur'.op = "write" /\ cur'.dup
          /\ ~settings.deduplicate_blocks_in_dependent_materialized_views)
       => /\ pc' = "idle"
          /\ cur'.result = Returned
          /\ views' = views
          /\ view_out' = view_out
          /\ stage' = stage]_vars

\* Such a write() of a writer with views has returned.
C7_Witness ==
    /\ pc = "idle"
    /\ cur.op = "write"
    /\ cur.dup
    /\ ~settings.deduplicate_blocks_in_dependent_materialized_views
    /\ Len(views) > 1

\* C8: write() of a batch whose nested array sizes do not match throws
\* ShapeMismatch, and no sink receives anything and no view changes.
C8_InvalidBatchRejected ==
    [][(cur'.batch # cur.batch /\ cur'.op = "write" /\ ~cur'.valid)
       => /\ pc' = "idle"
          /\ cur'.result = ShapeMismatch
          /\ direct_out' = direct_out
          /\ live_out' = live_out
          /\ view_out' = view_out
          /\ views' = views
          /\ stage' = stage]_vars

\* Such a write() of a writer with a direct sink and views has thrown.
C8_Witness ==
    /\ pc = "idle"
    /\ cur.op = "write"
    /\ ~cur.valid
    /\ cur.result = ShapeMismatch
    /\ writer.output
    /\ Len(views) > 0

\* C9: while a block stage of a view runs, and when write() has rethrown a view's
\* exception, the direct sink has received the batch of that call.
C9_DirectSinkFirst ==
    (writer.output /\ ~writer.live_storage) =>
        /\ \A t \in Threads :
              (stage[t].pos = "entered" /\ stage[t].op = "write")
                  => direct_out.last = Entry("write", stage[t].batch)
        /\ (pc = "idle" /\ cur.op = "write" /\ cur.result.type = "view")
              => direct_out.last = Entry("write", cur.batch)

\* write() has thrown the exception of a view, and the direct sink has the batch.
C9_Witness ==
    /\ pc = "idle"
    /\ cur.op = "write"
    /\ cur.result.type = "view"
    /\ cur.failed # <<>>
    /\ writer.output
    /\ direct_out.last = Entry("write", cur.batch)

\* C10: when output->write throws, write() throws it at once: no view stage
\* runs, and no view and no view sink changes.
C10_DirectSinkErrorPropagates ==
    [][(cur'.batch # cur.batch /\ cur'.op = "write" /\ cur'.throws)
       => /\ pc' = "idle"
          /\ cur'.result = SinkThrown
          /\ views' = views
          /\ view_out' = view_out
          /\ stage' = stage]_vars

\* The direct sink of a writer with views threw in write().
C10_Witness ==
    /\ pc = "idle"
    /\ cur.op = "write"
    /\ cur.throws
    /\ cur.result = SinkThrown
    /\ writer.output
    /\ Len(views) > 0

\* C11: a writePrefix() in which the prefix stage of a view stored an exception
\* ends by throwing that exception to the caller, after the prefix stage has run
\* for every view.
C11_PrefixRethrows ==
    (cur.op = "prefix" /\ cur.failed # <<>> /\ pc # "loop") =>
        /\ cur.result.type = "view"
        /\ cur.result.exc = views[cur.failed[1]].exception
        /\ \A v \in DOMAIN view_out : view_out[v].last = Entry("prefix", cur.batch)

\* C12: a prefix stage runs only on the calling thread, so no two prefix stages
\* overlap, whatever parallel_view_processing and max_threads are; when the prefix
\* stage of a view runs, the direct sink has received writePrefix of this call, and
\* so has the sink of every view before it and of no view after it.
C12_PrefixSequential ==
    \A t \in Threads :
        (stage[t].pos = "entered" /\ stage[t].op = "prefix") =>
            /\ t = Caller
            /\ writer.output => direct_out.last = Entry("prefix", stage[t].batch)
            /\ \A v \in DOMAIN view_out :
                  (v < stage[t].view) <=> (view_out[v].last = Entry("prefix", stage[t].batch))

\* With parallel processing on two threads, the prefix stage of the second view
\* runs after that of the first.
C12_Witness ==
    /\ settings.parallel_view_processing
    /\ settings.max_threads > 1
    /\ writer.output
    /\ stage[Caller].pos = "entered"
    /\ stage[Caller].op = "prefix"
    /\ stage[Caller].view = 2

\* C13: when the base storage is a Live view, no block stage of a view runs:
\* write() returns after the Live view's write path.
C13_LiveViewSkipsViews ==
    writer.live_storage =>
        \A t \in Threads : ~(stage[t].pos = "entered" /\ stage[t].op = "write")

\* C14: after a flush() call, whether it returned or threw, the direct sink and
\* the sink of every view have been flushed.
C14_FlushBestEffort ==
    (cur.op = "flush" /\ pc = "idle") =>
        /\ writer.output => "flush" \in direct_out.seen
        /\ \A v \in DOMAIN view_out : "flush" \in view_out[v].seen

\* C15: no two threads run a stage of the same view at the same time; every stage
\* that runs belongs to the writer call in progress, so stages of different calls
\* never overlap; and in the pool a view has a running stage exactly while its one
\* job is running.
C15_OneStagePerView ==
    /\ \A t, u \in Threads :
          (t # u /\ stage[t].pos = "entered" /\ stage[u].pos = "entered")
              => stage[t].view # stage[u].view
    /\ \A t \in Threads :
          stage[t].pos = "entered" =>
              /\ pc \in {"loop", "wait"}
              /\ stage[t].op = cur.op
              /\ stage[t].batch = cur.batch
    /\ pc = "wait" =>
          \A v \in DOMAIN job :
              (job[v] = "running") <=>
                  (\E t \in Threads : stage[t].pos = "entered" /\ stage[t].view = v)

\* Two pool threads run the stages of the two views at the same time.
C15_Witness ==
    /\ pc = "wait"
    /\ stage[1].pos = "entered"
    /\ stage[2].pos = "entered"
    /\ stage[1].view # stage[2].view

\* The threads that are running a view stage.
Running == {t \in Threads : stage[t].pos = "entered"}

\* C16: the number of view stages running at the same time is at most the smaller
\* of the number of views and (parallel_view_processing ? max_threads : 1); when
\* parallel_view_processing is false or max_threads <= 1 the stages run on the
\* calling thread only, in the order of the view records: when the stage of a view
\* runs, the sinks of the views before it have received this call and the sinks
\* of the views after it have not.
C16_PoolBound ==
    /\ Cardinality(Running) <= Len(views)
    /\ Cardinality(Running) <=
          (IF settings.parallel_view_processing THEN settings.max_threads ELSE 1)
    /\ (~settings.parallel_view_processing \/ settings.max_threads <= 1) =>
          /\ Running \subseteq {Caller}
          /\ stage[Caller].pos = "entered" =>
                \A v \in DOMAIN view_out :
                    (v < stage[Caller].view) <=> (view_out[v].last.batch = stage[Caller].batch)

\* Three views, a pool of two threads: two stages run while the third job waits.
C16_Witness ==
    /\ Len(views) = 3
    /\ Cardinality(Running) = 2
    /\ \E v \in DOMAIN job : job[v] = "queued"

\* The gates of the view log: logging is on, and the view took longer than the
\* minimal duration when there is one.
PassesGates(view) ==
    /\ settings.log_queries
    /\ settings.log_query_views
    /\ settings.min_query_duration = 0 \/ view.elapsed_ms > settings.min_query_duration

\* C17: in the step in which write() or writeSuffix() ends by rethrowing the
\* exception of a view, one record is emitted for every view that passes the gates,
\* whether its stage failed, succeeded or never ran, and none for the others.
C17_TelemetryBeforeRethrow ==
    [][(cur.result = Pending /\ cur'.result.type = "view" /\ cur'.op \in {"write", "suffix"})
       => \A v \in DOMAIN view_log :
             view_log'[v] = view_log[v] + (IF PassesGates(views'[v]) THEN 1 ELSE 0)]_vars

\* A sequential write() failed at the first view: the second view's stage never
\* ran in this call, and a record was emitted for both.
C17_Witness ==
    /\ pc = "idle"
    /\ cur.op = "write"
    /\ cur.result.type = "view"
    /\ cur.failed = <<1>>
    /\ Len(views) = 2
    /\ view_out[2].last.call = "prefix"
    /\ view_log = <<1, 1>>

C19_ContextIsolation ==
    /\ contexts.heap[CallerContext] = contexts.given
    /\ DOMAIN view_out # {} =>
          /\ contexts.select_context \notin {0, CallerContext}
          /\ contexts.insert_context \notin {0, CallerContext, contexts.select_context}

\* The insert context was given other settings than the caller's, and the block
\* stage of a view with a query has run.
C19_Witness ==
    /\ contexts.insert_context # 0
    /\ contexts.heap[contexts.insert_context].insert_deduplicate # contexts.given.insert_deduplicate
    /\ contexts.heap[contexts.insert_context].min_insert_block_size_rows
          # contexts.given.min_insert_block_size_rows
    /\ \E v \in DOMAIN views : views[v].query /\ views[v].status = "BlockWritten"

\* C20: a writer with dependents has an insert context, and a writer without has
\* none; in it insert_deduplicate is false when the root table deduplicates (the
\* writer has a destination and its storage supports deduplication) and
\* deduplicate_blocks_in_dependent_materialized_views is false, and it is the
\* caller's insert_deduplicate in every other case.
C20_InsertDeduplicate ==
    /\ (contexts.insert_context # 0) <=> (DOMAIN view_out # {})
    /\ contexts.insert_context # 0 =>
          contexts.heap[contexts.insert_context].insert_deduplicate =
              (IF /\ writer.output
                  /\ contexts.supports_deduplication
                  /\ ~settings.deduplicate_blocks_in_dependent_materialized_views
               THEN FALSE
               ELSE contexts.given.insert_deduplicate)

\* The caller deduplicates, the root table does too, and the caller asked for
\* deduplication in the dependents: the insert context inherits insert_deduplicate.
C20_Witness ==
    /\ contexts.insert_context # 0
    /\ writer.output
    /\ contexts.supports_deduplication
    /\ settings.deduplicate_blocks_in_dependent_materialized_views
    /\ contexts.given.insert_deduplicate
    /\ contexts.heap[contexts.insert_context].insert_deduplicate
    /\ pc = "idle"
    /\ cur.op = "write"

(***************************************************************************)
(* The constructor: one writer per table, nested through the dependents.   *)
(***************************************************************************)

\* checkStackSize(): the nesting of the constructors is limited.
TooDeepNever(depth) == FALSE
TooDeep(depth) == depth > MaxDepth

\* No deeper nesting is followed than the guard lets through by one writer.
StackCap == MaxDepth + 1

Top == binding.stack[Len(binding.stack)]
SetTop(f) == [binding EXCEPT !.stack[Len(binding.stack)] = f]
Dependencies(table) == binding.catalog.dependencies[table]

\* The constructor throws: the writers under construction are unwound, their
\* members are destroyed (the table locks, and the view records, whose ThreadStatus
\* destructor modifies current_thread), their destructor bodies do not run.
Unwind(error) ==
    /\ binding' = [status |-> "failed", catalog |-> NoCatalog, stack |-> <<>>,
                   table_locks |-> NoLocks, error |-> error]
    /\ current_thread' =
          [current_thread EXCEPT ![Caller] =
              IF \E i \in DOMAIN binding.stack : binding.stack[i].records # <<>>
              THEN NullThread ELSE @]
    /\ views' = <<>>
    /\ view_out' = <<>>
    /\ view_log' = <<>>
    /\ job' = <<>>
    /\ pc' = "failed"
    /\ UNCHANGED <<settings, writer, cur, caller, idx, stage, exception_count, direct_out,
                   live_out, contexts, pool>>

\* The constructor goes on: only the writers under construction change.
Proceed(b) ==
    /\ binding' = b
    /\ UNCHANGED <<settings, writer, views, current_thread, pc, cur, caller, idx, job, stage,
                   exception_count, view_out, direct_out, live_out, view_log, contexts, pool>>

\* auto * running_thread = current_thread; ... std::make_shared<ThreadStatus>() ...
\* current_thread = running_thread;
AfterThreadStatus(running_thread, now) == running_thread

\* views.emplace_back(...) in the writer of frame f; the record of the root writer
\* is a view of the model.
AddView(f, type, nested) ==
    [f EXCEPT !.records = Append(@, type), !.k = @ + 1, !.phase = "bind",
              !.nested = @ + nested]

AddRootView(type) ==
    /\ views' = Append(views, NewView(type))
    /\ view_out' = [v \in 1..(Len(views) + 1) |-> IF v <= Len(views) THEN view_out[v] ELSE NewSink]
    /\ view_log' = [v \in 1..(Len(views) + 1) |-> IF v <= Len(views) THEN view_log[v] ELSE 0]
    /\ job' = [v \in 1..(Len(views) + 1) |-> "none"]
    /\ current_thread' =
          [current_thread EXCEPT ![Caller] = AfterThreadStatus(@, ViewThread(Len(views) + 1))]
    /\ UNCHANGED <<settings, writer, pc, cur, caller, idx, stage, exception_count, direct_out,
                   live_out, contexts, pool>>

\* checkStackSize(); addTableLock(storage->lockForShare(...));
BeginConstructor ==
    /\ pc = "constructing"
    /\ Top.phase = "enter"
    /\ Len(binding.stack) <= StackCap
    /\ IF TooDeep(Len(binding.stack))
       THEN Unwind("TOO_DEEP_RECURSION")
       ELSE \E locked \in BOOLEAN :
               IF locked
               THEN Proceed(SetTop([Top EXCEPT !.phase = "bind", !.base = TRUE]))
               ELSE Unwind("DEADLOCK_AVOIDED")

\* for (const auto & database_table : dependencies): getTable(database_table), then
\* the lock of a Materialized view, or the constructor of the nested writer of a
\* Live view (no_destination = true) or of any other table.
BindDependent ==
    /\ pc = "constructing"
    /\ Top.phase = "bind"
    /\ Top.k <= Len(Dependencies(Top.table))
    /\ LET d == Dependencies(Top.table)[Top.k]
           type == binding.catalog.type[d]
       IN \E step \in {"ok", "UNKNOWN_TABLE", "DEADLOCK_AVOIDED"} :
            IF step = "UNKNOWN_TABLE" THEN Unwind(step)
            ELSE IF type = "Materialized"
            THEN IF step = "ok"
                 THEN Proceed(SetTop([Top EXCEPT !.phase = "locked", !.locked = @ \cup {Top.k}]))
                 ELSE Unwind(step)
            ELSE /\ step = "ok"
                 /\ Proceed([binding EXCEPT
                       !.stack = Append(@, NewFrame(d, type = "Live"))])

\* InterpreterInsertQuery interpreter(insert_query_ptr, insert_context);
\* BlockIO io = interpreter.execute(); out = io.out; and the view record.
OpenSink ==
    /\ pc = "constructing"
    /\ Top.phase = "locked"
    /\ \E opened \in BOOLEAN :
         IF opened
         THEN /\ binding' = SetTop(AddView(Top, "Materialized", 0))
              /\ IF Len(binding.stack) = 1
                 THEN AddRootView("Materialized")
                 ELSE UNCHANGED <<settings, writer, views, current_thread, pc, cur, caller, idx,
                                  job, stage, exception_count, view_out, direct_out, live_out,
                                  view_log, contexts, pool>>
         ELSE Unwind("CANNOT_OPEN_SINK")

\* The end of the loop: if (!no_destination) { auto sink = storage->write(...); ... }
\* The constructor of a nested writer returns into the loop of its parent, which
\* builds the view record; the constructor of the root writer returns to the caller.
FinishConstructor ==
    /\ pc = "constructing"
    /\ Top.phase = "bind"
    /\ Top.k > Len(Dependencies(Top.table))
    /\ \E opened \in {o \in BOOLEAN : Top.no_destination => o} :
         IF ~opened THEN Unwind("CANNOT_OPEN_SINK")
         ELSE IF Len(binding.stack) = 1
         THEN /\ binding' = [status |-> "constructed", catalog |-> NoCatalog, stack |-> <<>>,
                             table_locks |-> LocksAfterBinding(Top), error |-> "none"]
              /\ pc' = "idle"
              /\ UNCHANGED <<settings, writer, views, current_thread, cur, caller, idx, job,
                             stage, exception_count, view_out, direct_out, live_out, view_log,
                             contexts, pool>>
         ELSE LET parent == binding.stack[Len(binding.stack) - 1]
                  type == binding.catalog.type[Top.table]
                  popped == SubSeq(binding.stack, 1, Len(binding.stack) - 1)
              IN /\ binding' = [binding EXCEPT
                       !.stack = [popped EXCEPT
                                     ![Len(popped)] = AddView(parent, type, FrameLocks(Top))]]
                 /\ IF Len(popped) = 1
                    THEN AddRootView(type)
                    ELSE UNCHANGED <<settings, writer, views, current_thread, pc, cur, caller,
                                     idx, job, stage, exception_count, view_out, direct_out,
                                     live_out, view_log, contexts, pool>>

\* Before the constructor: a storage with a sink of its own, any catalog.
InitBinding ==
    /\ settings \in SequentialSettings
    /\ ~settings.deduplicate_blocks_in_dependent_materialized_views
    /\ writer = [output |-> TRUE, replicated_output |-> FALSE, live_storage |-> FALSE]
    /\ views = <<>>
    /\ view_out = <<>>
    /\ view_log = <<>>
    /\ job = <<>>
    /\ current_thread = [t \in Threads |-> IF t = Caller THEN CallerThread ELSE WorkerThread]
    /\ pc = "constructing"
    /\ cur = NoCall
    /\ caller = [ncalls |-> 0, phase |-> "new", threw |-> FALSE, stream |-> FALSE]
    /\ idx = 0
    /\ stage = [t \in Threads |-> IdleStage]
    /\ exception_count = 0
    /\ direct_out = NewSink
    /\ live_out = NewSink
    /\ pool = NoPool
    /\ \E catalog \in Catalogs :
         /\ binding = Unbound(catalog, FALSE)
         /\ contexts = ContextsAfterConstruction(
                DefaultContext, FALSE, FALSE, FALSE, Len(catalog.dependencies[RootTable]))

\* The constructor, then any call of the writer, in sequential processing.
NextBinding ==
    \/ BeginConstructor
    \/ BindDependent
    \/ OpenSink
    \/ FinishConstructor
    \/ WritePrefix
    \/ Write
    \/ WriteSuffix
    \/ Flush
    \/ Destroy
    \/ LoopEnter
    \/ LoopFinish

SpecBinding == InitBinding /\ [][NextBinding]_vars

\* The constructor alone, which runs on one thread until it returns or throws.
NextConstructor ==
    \/ BeginConstructor
    \/ BindDependent
    \/ OpenSink
    \/ FinishConstructor

SpecConstructor == InitBinding /\ [][NextConstructor]_vars /\ WF_vars(NextConstructor)

\* The table locks of the root writer, under construction and afterwards.
RootLocks ==
    IF binding.status = "constructing"
    THEN [base |-> binding.stack[1].base, views |-> binding.stack[1].locked]
    ELSE binding.table_locks

\* C21: the table locks of the writer only grow while it is constructed and no
\* call of the writer changes them; until it is destroyed (or its constructor
\* throws) the writer holds the lock of its storage once it took it, and the lock
\* of every Materialized view it has a view record of, at every level of nesting:
\* the lock of a view is taken before its sink is opened and its record built.
C21_LocksOnlyGrow ==
    [][/\ pc' \notin {"failed", "destroyed"} =>
             /\ RootLocks.base => RootLocks'.base
             /\ RootLocks.views \subseteq RootLocks'.views
             /\ pc \notin {"constructing"} => binding'.table_locks = binding.table_locks
       /\ pc' \notin {"constructing", "failed", "destroyed"} =>
             /\ RootLocks'.base
             /\ \A v \in DOMAIN views' :
                   views'[v].type = "Materialized" => v \in RootLocks'.views
       /\ \A i \in DOMAIN binding'.stack :
             \A r \in DOMAIN binding'.stack[i].records :
                binding'.stack[i].records[r] = "Materialized" =>
                   r \in binding'.stack[i].locked]_vars

\* A writer that bound a Materialized view after another dependent has returned
\* from write(), holding the lock of its storage and of the view.
C21_Witness ==
    /\ pc = "idle"
    /\ cur.op = "write"
    /\ cur.result = Returned
    /\ Len(views) >= 2
    /\ binding.table_locks.base
    /\ 2 \in binding.table_locks.views
    /\ 1 \notin binding.table_locks.views

\* C22: when the constructor has thrown, whichever dependent it was binding, the
\* writers it was building hold no table lock and the current_thread of the
\* calling thread is the ThreadStatus it was before the constructor.
C22_ConstructorFailureLeaksNothing ==
    pc = "failed" =>
        /\ binding.stack = <<>>
        /\ binding.table_locks = NoLocks
        /\ current_thread[Caller] = CallerThread

\* C23: for every dependency graph, cyclic or not, the constructor ends: it
\* returns or it throws.  While it runs, every writer under construction has one
\* view record per dependent it has gone through, of the kind of that dependent,
\* and the root writer that returns has one per dependent of its table; a
\* constructor nested deeper than the guard allows binds nothing and throws
\* TOO_DEEP_RECURSION.
C23_BindingTerminates ==
    /\ <>(pc # "constructing")
    /\ [](\A i \in DOMAIN binding.stack :
            LET f == binding.stack[i] IN
            /\ Len(f.records) = f.k - 1
            /\ \A r \in DOMAIN f.records :
                  f.records[r] = binding.catalog.type[Dependencies(f.table)[r]]
            /\ i > MaxDepth => f.phase = "enter" /\ i = Len(binding.stack))
    /\ [][/\ (pc = "constructing" /\ pc' = "idle") =>
                /\ Len(views') = Len(Dependencies(RootTable))
                /\ \A v \in DOMAIN views' :
                      views'[v].type = binding.catalog.type[Dependencies(RootTable)[v]]
          /\ (pc = "constructing" /\ Len(binding.stack) > MaxDepth) =>
                /\ pc' = "failed"
                /\ binding'.error = "TOO_DEEP_RECURSION"]_vars

\* A nesting deeper than the guard allows was refused.
C23_Witness ==
    /\ pc = "failed"
    /\ binding.error = "TOO_DEEP_RECURSION"

\* C24: a view whose stage body threw, whatever it threw, holds the exception in
\* view.exception with the name of the view in its message, and has the status
\* Failed; the stage itself ended without throwing (its thread is out of it).
C24_StageCapturesAndFails ==
    \A v \in DOMAIN views :
        views[v].exception # NoException =>
            /\ views[v].exception.view = v
            /\ views[v].status = "Failed"

\* C25: in a write() call no stage of a view runs twice; and when the call has
\* passed the direct sink and the gates that skip the views, and no view holds an
\* exception when it ends (none failed in this call, none is left from an earlier
\* call), then, in sequential and in parallel mode, the block stage has run
\* exactly once for every view, every view without a query has received this
\* batch in its sink, and the call has returned with every stage finished.
C25_BlockStageOncePerView ==
    /\ cur.op = "write" => \A v \in DOMAIN cur.ran : cur.ran[v] <= 1
    /\ (/\ pc = "idle"
        /\ cur.op = "write"
        /\ cur.result \notin {ShapeMismatch, SinkThrown}
        /\ Len(views) > 0
        /\ ~DuplicateGate(cur.dup)
        /\ \A v \in DOMAIN views : views[v].exception = NoException) =>
          /\ cur.result = Returned
          /\ \A t \in Threads : stage[t].pos = "idle"
          /\ \A v \in DOMAIN views :
                /\ cur.ran[v] = 1
                /\ views[v].status = "BlockWritten"
                /\ ~views[v].query => view_out[v].last = Entry("write", cur.batch)

\* A write() that processed two views in the pool has returned.
C25_Witness ==
    /\ pc = "idle"
    /\ cur.op = "write"
    /\ cur.result = Returned
    /\ Len(views) = 2
    /\ PoolSize > 1
    /\ \A v \in DOMAIN views : cur.ran[v] = 1 /\ views[v].exception = NoException

\* C26: when write() or writeSuffix() has given control back to the caller, by
\* returning or by throwing, no stage of a view is running on any thread and no
\* job is queued or running; and the step that collects the exceptions has seen
\* what the pool threads wrote: every view whose stage failed in this call holds
\* its exception and the call has thrown the exception of a view.
C26_NothingRunsAfterReturn ==
    (pc = "idle" /\ cur.op \in {"write", "suffix"}) =>
        /\ \A t \in Threads : stage[t].pos = "idle" /\ current_thread[t] # NullThread
        /\ \A v \in DOMAIN job : job[v] = "none"
        /\ \A i \in DOMAIN cur.failed :
              /\ views[cur.failed[i]].exception # NoException
              /\ cur.result.type = "view"
              /\ views[cur.result.from].exception = cur.result.exc

\* A call that ran three views on two pool threads has thrown: a stage failed on
\* a worker while another job was still queued.
C26_Witness ==
    /\ pc = "idle"
    /\ cur.op = "write"
    /\ PoolSize = MaxThreads
    /\ Len(views) > PoolSize
    /\ cur.result.type = "view"
    /\ Len(cur.failed) = 2
    /\ \E v \in DOMAIN views : cur.ran[v] = 0

(***************************************************************************)
(* The pool of write() and writeSuffix() with as many views as the counter *)
(* exception_count has values.  The views are counted, not held one by one *)
(* (the variable views stays empty); every view has a sink that throws, so *)
(* that the stage of a view stores an exception whenever it runs.          *)
(***************************************************************************)

PoolViews == ExceptionCountMod

\* const size_t max_threads = std::min(views.size(), parallel_view_processing ? max_threads : 1)
PoolThreads == Min(PoolViews, IF settings.parallel_view_processing THEN settings.max_threads ELSE 1)

PoolSettings ==
    [parallel_view_processing : {TRUE},
     max_threads : {ExceptionCountMod},
     deduplicate_blocks_in_dependent_materialized_views : {FALSE},
     log_queries : {TRUE},
     log_query_views : {TRUE},
     min_query_duration : {0}]

InitPool ==
    /\ Construction(PoolSettings, PlainWriters, {<<>>}, {DefaultContext}, {FALSE})
    /\ ~caller.stream

\* What check_exceptions_in_views() rethrows: the exception of some view.
PoolThrown == [type |-> "view", exc |-> [kind |-> "DB", view |-> 0], from |-> 0]

\* write() or writeSuffix(): ThreadPool pool(max_threads); exception_count = 0; one
\* job per view is scheduled.
PoolCall ==
    /\ pc = "idle"
    /\ pool.call < MaxCalls
    /\ PoolThreads > 1
    /\ pool' = [pool EXCEPT !.call = @ + 1, !.queued = PoolViews, !.running = 0,
                            !.threw = @ \/ pool.result.type = "view", !.result = Pending]
    /\ exception_count' = 0
    /\ pc' = "wait"
    /\ UNCHANGED <<settings, writer, views, current_thread, cur, caller, idx, job, stage,
                   view_out, direct_out, live_out, view_log, contexts, binding>>

\* A job finds exception_count zero and enters the stage of its view.
PoolJobStart ==
    /\ pc = "wait"
    /\ pool.queued > 0
    /\ pool.running < PoolThreads
    /\ exception_count = 0
    /\ pool' = [pool EXCEPT !.queued = @ - 1, !.running = @ + 1]
    /\ UNCHANGED <<settings, writer, views, current_thread, pc, cur, caller, idx, job, stage,
                   exception_count, view_out, direct_out, live_out, view_log, contexts, binding>>

\* if (exception_count.load()) return;  The jobs still queued leave together:
\* exception_count stays nonzero as long as a job is queued, since it is back to
\* zero only when the stage of every view has run.
PoolJobSkip ==
    /\ pc = "wait"
    /\ pool.queued > 0
    /\ exception_count # 0
    /\ pool' = [pool EXCEPT !.queued = 0]
    /\ UNCHANGED <<settings, writer, views, current_thread, pc, cur, caller, idx, job, stage,
                   exception_count, view_out, direct_out, live_out, view_log, contexts, binding>>

\* The stage ends with the exception of the sink stored in the view:
\* if (view.exception) exception_count.fetch_add(1);
PoolJobFinish ==
    /\ pc = "wait"
    /\ pool.running > 0
    /\ pool' = [pool EXCEPT !.running = @ - 1, !.held = TRUE]
    /\ exception_count' = (exception_count + 1) % ExceptionCountMod
    /\ UNCHANGED <<settings, writer, views, current_thread, pc, cur, caller, idx, job, stage,
                   view_out, direct_out, live_out, view_log, contexts, binding>>

\* pool.wait(); exception_happened = exception_count.load() != 0;
\* if (exception_happened) check_exceptions_in_views();
PoolJoin ==
    /\ pc = "wait"
    /\ pool.queued = 0
    /\ pool.running = 0
    /\ pool' = [pool EXCEPT !.result = IF exception_count # 0 THEN PoolThrown ELSE Returned]
    /\ pc' = "idle"
    /\ UNCHANGED <<settings, writer, views, current_thread, cur, caller, idx, job, stage,
                   exception_count, view_out, direct_out, live_out, view_log, contexts, binding>>

NextPool ==
    \/ PoolCall
    \/ PoolJobStart
    \/ PoolJobSkip
    \/ PoolJobFinish
    \/ PoolJoin

SpecPool == InitPool /\ [][NextPool]_vars

\* C27: whether write() or writeSuffix() rethrows depends only on whether some
\* view holds an exception when the pool has been joined, whatever the number of
\* views that failed: the call throws exactly when some view holds an exception.
C27_CountIsNoGate ==
    (pc = "idle" /\ pool.call > 0) =>
        (pool.result.type = "view" <=> pool.held)

\* C28: the block stage of a view that is not Materialized (a Live view, or any
\* other table) runs no SELECT: when write() has returned, the sink of every such
\* view whose stage ran has received the batch of the call.
C28_OnlyMaterializedRunSelect ==
    (pc = "idle" /\ cur.op = "write" /\ cur.result = Returned) =>
        \A v \in DOMAIN views :
            (views[v].type # "Materialized" /\ cur.ran[v] = 1) =>
                view_out[v].last = Entry("write", cur.batch)

\* in = std::make_shared<SquashingBlockInputStream>(in,
\*     getContext()->getSettingsRef().min_insert_block_size_rows,
\*     getContext()->getSettingsRef().min_insert_block_size_bytes);
\* getContext() is the context the writer was constructed with, its caller's.
SquashingThresholds(c) ==
    [rows |-> c.heap[CallerContext].min_insert_block_size_rows,
     bytes |-> c.heap[CallerContext].min_insert_block_size_bytes]

\* C29: while the block stage of a view with a query runs, the thresholds of its
\* squasher are min_insert_block_size_rows and min_insert_block_size_bytes of the
\* insert context, so the values for materialized views when the caller set them.
C29_SquasherUsesInsertContext ==
    \A t \in Threads :
        (stage[t].pos = "entered" /\ stage[t].op = "write" /\ views[stage[t].view].query) =>
            /\ SquashingThresholds(contexts).rows =
                  contexts.heap[contexts.insert_context].min_insert_block_size_rows
            /\ SquashingThresholds(contexts).bytes =
                  contexts.heap[contexts.insert_context].min_insert_block_size_bytes

\* C30: once a call of write() or writeSuffix() has thrown the exception of a
\* view, every later call of write() or writeSuffix() that processes the views
\* throws as well.
C30_StoredExceptionRethrown ==
    (pc = "idle" /\ pool.call > 0 /\ pool.threw) => pool.result.type = "view"

====
